---------------------------- MODULE Spec2Model ----------------------------
(***************************************************************************)
(* Sliding-window rate limiter of module_name/middlewares/rate_limiter.py. *)
(*                                                                         *)
(* State: the shared list rate_limit_datas, the wall clock read by         *)
(* datetime.utcnow(), and the configuration read once at import time.      *)
(* One action, Middleware, is one whole run of _rate_limit_middleware up   *)
(* to the point where it raises or hands the request to call_next; the     *)
(* coroutine never suspends before that point, so the run is one step of   *)
(* the event loop.  Tick lets wall-clock time pass between requests.       *)
(*                                                                         *)
(* Values are strings.  The cookie mapping of a request is written as the  *)
(* string "{}" (empty mapping) or "{sid=1}" (a non-empty mapping); a       *)
(* header that is not sent is None.                                        *)
(***************************************************************************)
EXTENDS Integers, Sequences, FiniteSets, TLC

VARIABLES
    rate_limit_datas,   \* list[RequestState], in append order
    clock,              \* the value datetime.utcnow() returns
    config,             \* config.service.rate_limit, fixed after load
    last,               \* history: the latest run of the middleware
    verdicts,           \* history: the outcome of the request behind each record
    run,                \* history: summary of all runs so far
    tasks,              \* the requests in flight on the event loop, by task
    running,            \* the task that holds the event loop, 0 when it is free
    loaded,             \* the outcome of validating a raw RateLimitConfig
    handled             \* one call of the exception handler middleware

vars == <<rate_limit_datas, clock, config, last, verdicts, run, tasks, running, loaded, handled>>

-----------------------------------------------------------------------------
(* Bounds of the model *)

MaxTime == 2        \* the clock runs over 0..MaxTime
MaxWindow == 1      \* window_time is drawn from 0..MaxWindow
MaxRequests == 3    \* number of middleware runs in one behaviour
MaxLen == 3         \* length of the windows an eviction pass is run on alone
MaxTasks == 2       \* number of requests in flight in one concurrent behaviour

\* The values of `limit` the model is configured with.
Limits == {0, 1}

-----------------------------------------------------------------------------
(* structs/rate_limiter.py *)

MatchFields == {"ip", "useragent", "cookies", "auth"}

MatchMethod == {"and", "or"}

None == "<None>"

\* RequestState(fields=..., timestamp=utcnow())
RequestState(fields, timestamp) == [fields |-> fields, timestamp |-> timestamp]

-----------------------------------------------------------------------------
(* The requests the model sends *)

Hosts == {"1.1.1.1", "2.2.2.2"}
UserAgents == {None, "", "useragent"}
CookieJars == {"{}", "{sid=1}"}
Authorizations == {None, "T"}

Requests ==
    [client_host : Hosts, user_agent : UserAgents,
     cookies : CookieJars, authorization : Authorizations]

\* What a request carries for an attribute the middleware is not configured to read;
\* requests that differ only there are the same request to the middleware.
Unread(field) == IF field = "ip" THEN "1.1.1.1" ELSE IF field = "cookies" THEN "{}" ELSE None

\* The orders of match_fields the model is configured with.
FieldLists ==
    { <<"ip">>, <<"cookies">>, <<"useragent">>,
      <<"ip", "auth">>, <<"auth", "ip">> }

\* Python truthiness of a value: the empty string and the empty mapping are falsy.
Falsy(item) == item \in {"", "{}"}

\* A dict is unhashable: `item in some_dict` raises TypeError for it.
Unhashable(item) == item \in CookieJars

-----------------------------------------------------------------------------
(* middlewares/rate_limiter.py *)

\* _field_mapping[field](request)
FieldMapping(field, request) ==
    CASE field = "ip"        -> request.client_host
      [] field = "useragent" -> request.user_agent
      [] field = "cookies"   -> request.cookies
      [] field = "auth"      -> request.authorization

\* _fields: the configured fields whose value is not None, as a mapping.
Fields(request, match_fields) ==
    LET present == { match_fields[i] : i \in
                       { j \in DOMAIN match_fields :
                           FieldMapping(match_fields[j], request) # None } }
    IN  [f \in present |-> FieldMapping(f, request)]

\* The keys of a snapshot in dict order, which is the order of match_fields.
Items(seq_1, match_fields) ==
    SelectSeq(match_fields, LAMBDA f : f \in DOMAIN seq_1)

\* item == seq_2[key]
Lookup(key, item, seq_2) ==
    IF key \notin DOMAIN seq_2 THEN "KeyError"
    ELSE IF item = seq_2[key] THEN "True" ELSE "False"

\* One element of the generator of _map_seq:
\* (ignore_empty and (not item or item not in seq_2)) or item == seq_2[key]
MapItem(key, item, seq_2, ignore_empty) ==
    IF ~ignore_empty THEN Lookup(key, item, seq_2)
    ELSE IF Falsy(item) THEN "True"
    ELSE IF Unhashable(item) THEN "TypeError"
    ELSE IF item \notin DOMAIN seq_2 THEN "True"
    ELSE Lookup(key, item, seq_2)

\* _map_seq: the generator, as the sequence of what each element evaluates to.
MapSeq(seq_1, seq_2, ignore_empty, match_fields) ==
    LET keys == Items(seq_1, match_fields)
    IN  [i \in DOMAIN keys |-> MapItem(keys[i], seq_1[keys[i]], seq_2, ignore_empty)]

\* all(generator): stops at the first False, raises what an element raises.
RECURSIVE PyAll(_)
PyAll(gen) ==
    IF gen = <<>> THEN "True"
    ELSE IF Head(gen) = "True" THEN PyAll(Tail(gen))
    ELSE Head(gen)

\* any(generator): stops at the first True, raises what an element raises.
RECURSIVE PyAny(_)
PyAny(gen) ==
    IF gen = <<>> THEN "False"
    ELSE IF Head(gen) = "False" THEN PyAny(Tail(gen))
    ELSE Head(gen)

\* _and that reports no match for an incoming snapshot without fields.
AndNonEmpty(seq_1, seq_2, match_fields) ==
    IF DOMAIN seq_1 = {} THEN "False"
    ELSE PyAll(MapSeq(seq_1, seq_2, FALSE, match_fields))

\* _and(seq_1, seq_2)
And(seq_1, seq_2, match_fields) == PyAll(MapSeq(seq_1, seq_2, FALSE, match_fields))

\* _or(seq_1, seq_2)
Or(seq_1, seq_2, match_fields) == PyAny(MapSeq(seq_1, seq_2, TRUE, match_fields))

\* The predicate of the filter, by match method; called as _or(_fields, _item.fields).
Matches(fields, item, cfg) ==
    IF cfg.match_method = "or"
    THEN Or(fields, item.fields, cfg.match_fields)
    ELSE And(fields, item.fields, cfg.match_fields)

\* ScanOlds with the slice taken one place too early: the expired record the
\* scan stopped at stays in the list.
RECURSIVE ScanOldsKeepsFound(_, _, _, _)
ScanOldsKeepsFound(datas, index, now, window_time) ==
    IF index < 1 THEN datas
    ELSE IF now - datas[index].timestamp > window_time
         THEN SubSeq(datas, index, Len(datas))
         ELSE ScanOldsKeepsFound(datas, index - 1, now, window_time)

\* ScanOlds with >= in place of >: a record exactly window_time old is expired.
RECURSIVE ScanOldsInclusive(_, _, _, _)
ScanOldsInclusive(datas, index, now, window_time) ==
    IF index < 1 THEN datas
    ELSE IF now - datas[index].timestamp >= window_time
         THEN SubSeq(datas, index + 1, Len(datas))
         ELSE ScanOldsInclusive(datas, index - 1, now, window_time)

\* The loop of _remove_olds from `index` downwards.
RECURSIVE ScanOlds(_, _, _, _)
ScanOlds(datas, index, now, window_time) ==
    IF index < 1 THEN datas
    ELSE IF now - datas[index].timestamp > window_time
         THEN SubSeq(datas, index + 1, Len(datas))
         ELSE ScanOlds(datas, index - 1, now, window_time)

\* Front eviction: records are dropped from the oldest end while they are
\* expired.
RECURSIVE FrontEviction(_, _, _)
FrontEviction(datas, now, window_time) ==
    IF datas = <<>> THEN datas
    ELSE IF now - Head(datas).timestamp > window_time
         THEN FrontEviction(Tail(datas), now, window_time)
         ELSE datas

\* _remove_olds without its `nonlocal`: the slice is bound to a local name and
\* the shared list is left as it was.
RemoveOldsLocalOnly(datas, now, window_time) == datas

\* _remove_olds
RemoveOlds(datas, now, window_time) == ScanOlds(datas, Len(datas), now, window_time)

\* The counting loop over the lazy filter: records are tested in list order and
\* the first exception ends the loop.  counted is the set of indices counted.
RECURSIVE CountFrom(_, _, _, _, _)
CountFrom(datas, index, fields, cfg, counted) ==
    IF index > Len(datas)
    THEN [error |-> "", count |-> Cardinality(counted), counted |-> counted]
    ELSE LET m == Matches(fields, datas[index], cfg)
         IN  IF m = "True"
             THEN CountFrom(datas, index + 1, fields, cfg, counted \cup {index})
             ELSE IF m = "False"
             THEN CountFrom(datas, index + 1, fields, cfg, counted)
             ELSE [error |-> m, count |-> Cardinality(counted), counted |-> counted]

\* The match method test with a final `else` in place of the `elif`: whatever
\* is not OR is handled as AND.
KnownMethodElse(match_method) == TRUE

\* The if / elif of the match method takes one of its two branches.
KnownMethod(match_method) == match_method \in MatchMethod

\* _last_requests and _last_request_count; with a match method that is neither
\* OR nor AND the else branch raises before any record is tested.
LastRequests(datas, fields, cfg) ==
    IF KnownMethod(cfg.match_method)
    THEN CountFrom(datas, 1, fields, cfg, {})
    ELSE [error |-> "AssertionError", count |-> 0, counted |-> {}]

\* The comparison with >= in place of >.
ExceededInclusive(count, limit) == count >= limit

\* if _last_request_count > _limit: raise HTTPException(...)
Exceeded(count, limit) == count > limit

\* The outcome of one run on the window left by _remove_olds.
Outcome(datas, fields, cfg) ==
    LET c == LastRequests(datas, fields, cfg)
    IN  IF c.error # "" THEN c.error
        ELSE IF Exceeded(c.count, cfg.limit) THEN "deny" ELSE "admit"

\* The append placed after the raise: only an admitted request is recorded.
RecordedWhenAdmitted(datas, fields, cfg, timestamp) ==
    LET c == LastRequests(datas, fields, cfg)
    IN  IF c.error # "" \/ c.count > cfg.limit THEN datas
        ELSE Append(datas, RequestState(fields, timestamp))

\* rate_limit_datas.append(RequestState(fields=_fields)); not reached when the
\* counting loop raised.
Recorded(datas, fields, cfg, timestamp) ==
    IF LastRequests(datas, fields, cfg).error # "" THEN datas
    ELSE Append(datas, RequestState(fields, timestamp))

-----------------------------------------------------------------------------
(* The response the client receives (app.py, exception_handles.py, responses.py) *)

\* A message is a str, a list or a dict (RateLimitConfig.message); `text` is
\* what it holds.  NoMessage is Python's None.
Str(text) == [type |-> "str", text |-> text]
NoMessage == [type |-> "None", text |-> ""]
Messages ==
    { Str("Too Many Requests"), Str("slow down"),
      [type |-> "list", text |-> "slow down"], [type |-> "dict", text |-> "slow down"] }

StatusCodes == {429, 503}

\* HTTPStatus(code).phrase
Phrase(code) ==
    CASE code = 200 -> "OK"
      [] code = 429 -> "Too Many Requests"
      [] code = 500 -> "Internal Server Error"
      [] code = 503 -> "Service Unavailable"

\* What a layer of the middleware stack hands to the layer above it: a response
\* (raised = "") or an exception; an HTTPException carries status_code and
\* detail in code and message.
Returned(code, message) == [raised |-> "", code |-> code, message |-> message]
Raised(exc, code, message) == [raised |-> exc, code |-> code, message |-> message]

\* BaseResponse(code, message): BaseResponseModel declares `message: str | None`,
\* so building the content from a list or a dict raises ValidationError.
BaseResponse(code, message) ==
    IF message = NoMessage THEN Returned(code, Str(Phrase(code)))
    ELSE IF message.type = "str" THEN Returned(code, message)
    ELSE Raised("ValidationError", 0, NoMessage)

\* _handle_http_exception
HandleHttpException(exc) == BaseResponse(exc.code, exc.message)

\* _handle_server_exception: `return exc.response`; an HTTPException has no
\* attribute `response`.
HandleServerException(exc) ==
    IF exc.raised = "ServerException" THEN Returned(exc.code, exc.message)
    ELSE Raised("AttributeError", 0, NoMessage)

\* handler(request, exc)
Handle(handler, exc) ==
    IF handler = "_handle_http_exception" THEN HandleHttpException(exc)
    ELSE HandleServerException(exc)

\* issubclass(cls, base) for the exception classes that reach the middleware:
\* fastapi's HTTPException extends Starlette's, CustomHTTPException stands for
\* an application subclass of fastapi's; ServerException and the others extend
\* Exception (CancelledError extends BaseException).
IsSubclass(cls, base) ==
    \/ cls = base
    \/ cls = "HTTPException" /\ base = "StarletteHTTPException"
    \/ cls = "CustomHTTPException" /\ base \in {"HTTPException", "StarletteHTTPException"}

\* _add_handler(exc, handler)
AddHandler(handlers, exc, handler) ==
    IF exc \in DOMAIN handlers
    THEN [handlers EXCEPT ![exc] = Append(@, handler)]
    ELSE [e \in DOMAIN handlers \cup {exc} |->
              IF e = exc THEN <<handler>> ELSE handlers[e]]

\* _exception_handlers after add_http_exception_handler(app) and
\* add_server_exception_handler(app): the latter registers its handler under
\* StarletteHTTPException.
ExceptionHandlers ==
    AddHandler(
        AddHandler(
            AddHandler([e \in {} |-> <<>>],
                       "HTTPException", "_handle_http_exception"),
            "StarletteHTTPException", "_handle_http_exception"),
        "StarletteHTTPException", "_handle_server_exception")

\* The loop over the handlers from `index` on: a handler either returns a
\* response, which is returned, or raises, which ends the loop; with no
\* handler left exc is re-raised.
RunHandlers(handlers, index, exc) ==
    IF index > Len(handlers) THEN exc
    ELSE Handle(handlers[index], exc)

\* The try and its except clauses: what is returned or still propagating when
\* the finally clause is reached.
TryExcept(below) ==
    IF below.raised = "" THEN below
    ELSE IF ~\E cls \in DOMAIN ExceptionHandlers : IsSubclass(below.raised, cls)
    THEN below
    ELSE IF below.raised \notin DOMAIN ExceptionHandlers
    THEN Raised("KeyError", 0, NoMessage)
    ELSE IF ExceptionHandlers[below.raised] = <<>> THEN below
    ELSE RunHandlers(ExceptionHandlers[below.raised], 1, below)

\* A finally clause that lets the exception go on.
FinallyReraises(handle_all, result) == result

\* finally: if handle_all and errored: return BaseResponse(code=500); the
\* return replaces whatever is still propagating.
Finally(handle_all, result) ==
    IF result.raised # "" /\ handle_all THEN BaseResponse(500, NoMessage)
    ELSE result

\* _exception_handler_middleware(handle_all, request, call_next), `below` being
\* what call_next produced.
ExceptionHandlerMiddleware(handle_all, below) == Finally(handle_all, TryExcept(below))

\* The response of the route below the limiter.
Downstream == Returned(200, Str("OK"))

\* What _rate_limit_middleware hands upwards for an outcome, and how many times
\* it awaited call_next.
RateLimitMiddleware(outcome, cfg) ==
    IF outcome = "admit" THEN [called |-> 1, result |-> Downstream]
    ELSE IF outcome = "deny"
    THEN [called |-> 0, result |-> Raised("HTTPException", cfg.status_code, cfg.message)]
    ELSE [called |-> 0, result |-> Raised(outcome, 0, NoMessage)]

\* The middleware stack of app.py: the exception handler middleware is added
\* last, so it wraps the limiter.
ClientResponse(outcome, cfg) ==
    ExceptionHandlerMiddleware(TRUE, RateLimitMiddleware(outcome, cfg).result)

-----------------------------------------------------------------------------
(* Validation of the configuration (config.py) *)

\* An optional attribute of the raw configuration: Absent is Python's None
\* (the attribute was not given), Some(value) a given value.
Absent == {}
Some(value) == {value}

\* match_fields as given: one MatchFields member or a list of them.
FieldsValue(is_list, items) == [list |-> is_list, items |-> items]

\* The configurations the validator is run on.
RawConfigs ==
    [enable : BOOLEAN,
     window_time : {Absent} \cup { Some(w) : w \in 0..MaxWindow },
     limit : {Absent} \cup { Some(l) : l \in Limits },
     match_fields : {Absent, Some(FieldsValue(FALSE, <<"ip">>)),
                     Some(FieldsValue(TRUE, <<"ip", "auth">>))},
     match_method : {Absent} \cup { Some(m) : m \in MatchMethod },
     status_code : {429},
     message : {Absent, Some(Str("slow down"))}]

ATTR_NAMES == {"window_time", "limit", "match_fields", "match_method"}

\* verify_fields with `assert _attr_value` in place of `is not None`: a limit
\* of 0 and a zero window are refused like an absent value.
VerifyFieldsTruthy(raw) ==
    IF ~raw.enable THEN [state |-> "ok", raw |-> raw, value |-> raw]
    ELSE IF \/ \E attr \in ATTR_NAMES : raw[attr] = Absent
            \/ raw.limit = Some(0)
            \/ raw.window_time = Some(0)
    THEN [state |-> "ValidationError", raw |-> raw, value |-> raw]
    ELSE [state |-> "ok", raw |-> raw, value |-> raw]

\* RateLimitConfig.verify_fields on the raw attributes; `value` is the
\* configuration object when the state is "ok".
VerifyFields(raw) ==
    IF ~raw.enable THEN [state |-> "ok", raw |-> raw, value |-> raw]
    ELSE IF \E attr \in ATTR_NAMES : raw[attr] = Absent
    THEN [state |-> "ValidationError", raw |-> raw, value |-> raw]
    ELSE [state |-> "ok", raw |-> raw,
          value |-> [raw EXCEPT
              !.match_fields =
                  { FieldsValue(TRUE, given.items) : given \in raw.match_fields },
              !.message =
                  IF raw.message = Absent
                  THEN Some(Str(Phrase(raw.status_code)))
                  ELSE raw.message]]

-----------------------------------------------------------------------------
(* History *)

NoRun ==
    [n |-> 0, fields |-> <<>>, now |-> 0, before |-> <<>>, evicted |-> <<>>,
     count |-> 0, counted |-> {}, outcome |-> "none", timestamp |-> 0,
     called |-> 0, response |-> Returned(0, NoMessage)]

\* The (field, value) pairs of a snapshot.
Pairs(fields) == { <<f, fields[f]>> : f \in DOMAIN fields }

NoHistory ==
    [same |-> TRUE, first |-> <<>>, removed |-> FALSE,
     disjoint |-> TRUE, seen |-> {}]

-----------------------------------------------------------------------------
(* The state machine *)

\* RateLimitConfig after validation, with status_code and message left at
\* their defaults.
Configs ==
    [match_fields : FieldLists, match_method : MatchMethod,
     window_time : 0..MaxWindow, limit : Limits,
     status_code : {429}, message : {Str(Phrase(429))}]

\* No request in flight.
NoTasks == << >>

\* No configuration validated.
NotLoaded == [state |-> "none"]

\* The exception handler middleware has not been called.
NotHandled == [state |-> "none"]

\* The state after add_rate_limit(app), for the configurations of `configs`.
Started(configs) ==
    /\ rate_limit_datas = <<>>
    /\ clock = 0
    /\ config \in configs
    /\ last = NoRun
    /\ verdicts = <<>>
    /\ run = NoHistory
    /\ tasks = NoTasks
    /\ running = 0
    /\ loaded = NotLoaded
    /\ handled = NotHandled

Init == Started(Configs)

\* Wall-clock time passes.
Tick ==
    /\ clock < MaxTime
    /\ clock' = clock + 1
    /\ UNCHANGED <<rate_limit_datas, config, last, verdicts, run, tasks, running, loaded, handled>>

\* One run of _rate_limit_middleware for `request`; `elapsed` is the time that
\* passes between the utcnow() of _remove_olds and the one of RequestState.
\* `now` is _now, `fields` is _fields, `evicted` the list _remove_olds leaves,
\* `c` the counting loop and `outcome` what the run ends in.
Middleware(request, elapsed) ==
    /\ last.n < MaxRequests
    /\ clock + elapsed <= MaxTime
    /\ \E now \in {clock}, fields \in {Fields(request, config.match_fields)} :
       \E evicted \in {RemoveOlds(rate_limit_datas, now, config.window_time)} :
       \E c \in {LastRequests(evicted, fields, config)},
          outcome \in {Outcome(evicted, fields, config)} :
       LET kept == SubSeq(verdicts, Len(verdicts) - Len(evicted) + 1, Len(verdicts))
       IN  /\ clock' = clock + elapsed
           /\ rate_limit_datas' = Recorded(evicted, fields, config, clock')
           /\ verdicts' = IF c.error # "" THEN kept ELSE Append(kept, outcome)
           /\ last' = [n |-> last.n + 1, fields |-> fields, now |-> now,
                       before |-> rate_limit_datas, evicted |-> evicted,
                       count |-> c.count, counted |-> c.counted,
                       outcome |-> outcome, timestamp |-> clock',
                       called |-> RateLimitMiddleware(outcome, config).called,
                       response |-> ClientResponse(outcome, config)]
           /\ run' = [same |-> run.same /\ (last.n = 0 \/ fields = run.first),
                      first |-> IF last.n = 0 THEN fields ELSE run.first,
                      removed |-> run.removed \/ Len(evicted) < Len(rate_limit_datas),
                      disjoint |-> run.disjoint /\ Pairs(fields) \cap run.seen = {},
                      seen |-> run.seen \cup Pairs(fields)]
           /\ UNCHANGED <<config, tasks, running, loaded, handled>>

\* The requests that differ in what config.match_fields reads.
Incoming ==
    { request \in Requests :
        \A field \in MatchFields :
            (\A i \in DOMAIN config.match_fields : config.match_fields[i] # field)
                => FieldMapping(field, request) = Unread(field) }

\* A request arrives and the middleware runs on it (no request is generated
\* once the bound on the runs is reached).
Request ==
    /\ last.n < MaxRequests
    /\ \E request \in Incoming, elapsed \in 0..1 : Middleware(request, elapsed)

Next == Tick \/ Request

Spec == Init /\ [][Next]_vars

\* A match method that is neither of the two the middleware tests for.
UnknownMethods == {"xor"}

UnknownMethodConfigs ==
    [match_fields : FieldLists, match_method : UnknownMethods,
     window_time : 0..MaxWindow, limit : Limits,
     status_code : {429}, message : {Str(Phrase(429))}]

\* The limiter running with _match_method bound to such a value.
UnknownMethodInit == Started(UnknownMethodConfigs)

UnknownMethodSpec == UnknownMethodInit /\ [][Next]_vars

\* The configurations of one limiter (AND on the client address) over the
\* status codes and messages RateLimitConfig accepts.
ResponseConfigs ==
    [match_fields : {<<"ip">>}, match_method : {"and"},
     window_time : 0..MaxWindow, limit : Limits,
     status_code : StatusCodes, message : Messages]

ResponseInit == Started(ResponseConfigs)

ResponseSpec == ResponseInit /\ [][Next]_vars

\* `await _remove_olds()`: the coroutine contains no await, so awaiting it never
\* hands the event loop to another task.  RemoveOldsSuspendsAlways is an
\* eviction that does.
RemoveOldsSuspendsAlways == TRUE

RemoveOldsSuspends == FALSE

\* The timestamp of a record taken when the request arrived.
TimestampAtArrival(arrived, now) == arrived

\* RequestState(fields=_fields): default_factory=datetime.utcnow runs when the
\* record is built, right before the append.
Timestamp(arrived, now) == now

Tasks == 1..MaxTasks

Idle ==
    [pc |-> "idle", fields |-> <<>>, arrived |-> 0, stamp |-> 0, outcome |-> "none",
     ended |-> ""]

\* The server starts a task for a request; the task waits for the event loop.
Arrive(t, request) ==
    /\ tasks[t].pc = "idle"
    /\ t > 1 => tasks[t - 1].pc # "idle"
    /\ tasks' = [tasks EXCEPT ![t] = [Idle EXCEPT !.pc = "arrived",
                      !.fields = Fields(request, config.match_fields),
                      !.arrived = clock]]
    /\ UNCHANGED <<rate_limit_datas, clock, config, last, verdicts, run, running, loaded, handled>>

\* Task t gets the event loop and runs `await _remove_olds()`.
StepRemoveOlds(t) ==
    /\ tasks[t].pc = "arrived"
    /\ running = 0
    /\ rate_limit_datas' = RemoveOlds(rate_limit_datas, clock, config.window_time)
    /\ tasks' = [tasks EXCEPT ![t].pc = "evicted"]
    /\ running' = IF RemoveOldsSuspends THEN 0 ELSE t
    /\ UNCHANGED <<clock, config, last, verdicts, run, loaded, handled>>

\* Task t goes on from the eviction to the count, the append and either the
\* raise or `await call_next(request)`, where it lets go of the event loop.
StepDecide(t) ==
    LET outcome == Outcome(rate_limit_datas, tasks[t].fields, config)
        stamp == Timestamp(tasks[t].arrived, clock)
    IN  /\ tasks[t].pc = "evicted"
        /\ running \in {0, t}
        /\ rate_limit_datas' = Recorded(rate_limit_datas, tasks[t].fields, config, stamp)
        /\ tasks' = [tasks EXCEPT ![t].pc = IF outcome = "admit" THEN "downstream" ELSE "done",
                                  ![t].stamp = stamp,
                                  ![t].outcome = outcome]
        /\ running' = 0
        /\ UNCHANGED <<clock, config, last, verdicts, run, loaded, handled>>

\* call_next returns and the task ends.
Finish(t) ==
    /\ tasks[t].pc = "downstream"
    /\ running = 0
    /\ tasks' = [tasks EXCEPT ![t].pc = "done"]
    /\ UNCHANGED <<rate_limit_datas, clock, config, last, verdicts, run, running, loaded, handled>>

\* One limiter (on the client address) serving requests concurrently.
ConcConfigs ==
    [match_fields : {<<"ip">>}, match_method : {"and"},
     window_time : 0..MaxWindow, limit : Limits,
     status_code : {429}, message : {Str(Phrase(429))}]

ConcInit ==
    /\ rate_limit_datas = <<>>
    /\ clock = 0
    /\ config \in ConcConfigs
    /\ last = NoRun
    /\ verdicts = <<>>
    /\ run = NoHistory
    /\ tasks = [t \in Tasks |-> Idle]
    /\ running = 0
    /\ loaded = NotLoaded
    /\ handled = NotHandled

ConcNext ==
    \/ Tick
    \/ \E t \in Tasks, request \in Incoming : Arrive(t, request)
    \/ \E t \in Tasks : StepRemoveOlds(t)
    \/ \E t \in Tasks : StepDecide(t)
    \/ \E t \in Tasks : Finish(t)

ConcSpec == ConcInit /\ [][ConcNext]_vars

\* The window with a record taken back when the request did not complete.
RetractOnFailure(datas, record, how) ==
    IF how = "returned" THEN datas
    ELSE SelectSeq(datas, LAMBDA r : r # record)

\* What the middleware does to the window when `await call_next(request)` ends
\* by returning, by raising or by being cancelled: the await is the last
\* statement, outside any try, so nothing.
AfterDownstream(datas, record, how) == datas

\* `await call_next(request)` of task t ends without a response.
Ended(t, how) ==
    /\ tasks[t].pc = "downstream"
    /\ running = 0
    /\ tasks' = [tasks EXCEPT ![t].pc = "done", ![t].ended = how]
    /\ rate_limit_datas' =
           AfterDownstream(rate_limit_datas,
                           RequestState(tasks[t].fields, tasks[t].stamp), how)
    /\ UNCHANGED <<clock, config, last, verdicts, run, running, loaded, handled>>

\* The downstream handler raises.
Fail(t) == Ended(t, "raised")

\* The caller abandons the request: the task is cancelled while it awaits
\* call_next.
Abandon(t) == Ended(t, "cancelled")

\* One limiter with limit 0: the first request of a client is admitted and
\* goes downstream, its next ones are denied.
FrameConfigs ==
    [match_fields : {<<"ip">>}, match_method : {"and"},
     window_time : 0..MaxWindow, limit : {0},
     status_code : {429}, message : {Str(Phrase(429))}]

FrameInit ==
    /\ rate_limit_datas = <<>>
    /\ clock = 0
    /\ config \in FrameConfigs
    /\ last = NoRun
    /\ verdicts = <<>>
    /\ run = NoHistory
    /\ tasks = [t \in Tasks |-> Idle]
    /\ running = 0
    /\ loaded = NotLoaded
    /\ handled = NotHandled

FrameNext ==
    \/ ConcNext
    \/ \E t \in Tasks : Fail(t)
    \/ \E t \in Tasks : Abandon(t)

FrameSpec == FrameInit /\ [][FrameNext]_vars

\* The lists an eviction pass is run on alone: every list of up to MaxLen
\* records, in timestamp order or not.
Windows ==
    UNION { [1..n -> { RequestState([ip |-> "1.1.1.1"], ts) : ts \in 0..MaxTime }] :
            n \in 0..MaxLen }

EvictConfigs ==
    [match_fields : {<<"ip">>}, match_method : {"and"},
     window_time : 0..MaxWindow, limit : {0},
     status_code : {429}, message : {Str(Phrase(429))}]

EvictInit ==
    /\ rate_limit_datas \in Windows
    /\ clock \in 0..MaxTime
    /\ config \in EvictConfigs
    /\ last = NoRun
    /\ verdicts = <<>>
    /\ run = NoHistory
    /\ tasks = NoTasks
    /\ running = 0
    /\ loaded = NotLoaded
    /\ handled = NotHandled

\* One call of _remove_olds on the list, at the time the clock shows.
RemoveOldsPass ==
    /\ last.n = 0
    /\ rate_limit_datas' = RemoveOlds(rate_limit_datas, clock, config.window_time)
    /\ last' = [NoRun EXCEPT !.n = 1, !.now = clock,
                             !.before = rate_limit_datas,
                             !.evicted = rate_limit_datas']
    /\ UNCHANGED <<clock, config, verdicts, run, tasks, running, loaded, handled>>

EvictNext == RemoveOldsPass

EvictSpec == EvictInit /\ [][EvictNext]_vars

\* What call_next can produce below the exception handler middleware: a
\* response, or an exception of one of the classes.
Belows ==
    {Downstream}
    \cup { Raised(exc, code, message) :
             exc \in {"HTTPException", "StarletteHTTPException", "CustomHTTPException"},
             code \in StatusCodes, message \in Messages }
    \cup { Raised("ServerException", code, Str(text)) :
             code \in StatusCodes, text \in {"Too Many Requests", "slow down"} }
    \cup { Raised(exc, 0, NoMessage) :
             exc \in {"KeyError", "TypeError", "AssertionError", "CancelledError"} }

\* A request enters the exception handler middleware and call_next produces
\* one of Belows.
HandlerInit ==
    /\ rate_limit_datas = <<>>
    /\ clock = 0
    /\ config \in {[match_fields |-> <<"ip">>, match_method |-> "and",
                    window_time |-> 0, limit |-> 0,
                    status_code |-> 429, message |-> Str(Phrase(429))]}
    /\ last = NoRun
    /\ verdicts = <<>>
    /\ run = NoHistory
    /\ tasks = NoTasks
    /\ running = 0
    /\ loaded = NotLoaded
    /\ handled \in [state : {"called"}, handle_all : BOOLEAN, below : Belows,
                    result : {Returned(0, NoMessage)}]

\* _exception_handler_middleware runs to its end.
Dispatch ==
    /\ handled.state = "called"
    /\ handled' = [handled EXCEPT
                      !.state = "done",
                      !.result = ExceptionHandlerMiddleware(handled.handle_all,
                                                            handled.below)]
    /\ UNCHANGED <<rate_limit_datas, clock, config, last, verdicts, run, tasks, running,
                   loaded>>

HandlerNext == Dispatch

HandlerSpec == HandlerInit /\ [][HandlerNext]_vars

\* RateLimitConfig(**values): the model is built and verify_fields runs.
LoadConfig ==
    /\ loaded = NotLoaded
    /\ handled = NotHandled
    /\ \E raw \in RawConfigs : loaded' = VerifyFields(raw)
    /\ UNCHANGED <<rate_limit_datas, clock, config, last, verdicts, run, tasks, running,
                   handled>>

\* The limiter is not installed while the configuration is being loaded.
ConfigInit == Started({[match_fields |-> <<"ip">>, match_method |-> "and",
                        window_time |-> 0, limit |-> 0,
                        status_code |-> 429, message |-> Str(Phrase(429))]})

ConfigNext == LoadConfig

ConfigSpec == ConfigInit /\ [][ConfigNext]_vars

-----------------------------------------------------------------------------
(* What the specification says a match is (its section 4.2), with A the stored
   snapshot and B the incoming one; used to state the claims about the matcher. *)

\* AND: every key present in A is also present in B with an equal value.
SaidAnd(A, B) == \A k \in DOMAIN A : k \in DOMAIN B /\ B[k] = A[k]

\* OR: at least one key of A is present in B with a non-empty, equal value.
SaidOr(A, B) == \E k \in DOMAIN A : k \in DOMAIN B /\ ~Falsy(B[k]) /\ B[k] = A[k]

\* The latest run reached its decision (it did not raise while counting).
Decided == last.outcome \in {"admit", "deny"}

\* The records of the post-eviction window of the latest run that the filter
\* predicate accepts, taken record by record.
Accepted ==
    { i \in DOMAIN last.evicted : Matches(last.fields, last.evicted[i], config) = "True" }

\* The records of a window that are not older than window_time at `now`.
Fresh(datas, now) ==
    SelectSeq(datas, LAMBDA r : now - r.timestamp <= config.window_time)

-----------------------------------------------------------------------------
(* Claims *)

\* C1: in a sequence of requests that all carry the same snapshot with at least
\* one field, starting from the empty window and with no record expiring, the
\* k-th request is admitted iff k <= limit + 1 and denied when k > limit + 1.
C1_SameKeySequence ==
    (last.n >= 1 /\ run.same /\ ~run.removed /\ DOMAIN last.fields # {})
        => /\ (last.outcome = "admit") <=> (last.n <= config.limit + 1)
           /\ (last.n > config.limit + 1) => (last.outcome = "deny")

\* C2: in a sequence of requests of which no two agree on any configured
\* attribute value, every request is admitted, under AND and under OR.
C2_UnrelatedAdmitted ==
    (last.n >= 1 /\ run.disjoint) => last.outcome = "admit"

\* C3: under AND a stored record A is counted against the incoming snapshot B
\* iff every key present in A is present in B with an equal value.
C3_AndCounted ==
    (last.n >= 1 /\ config.match_method = "and")
        => \A i \in DOMAIN last.evicted :
              (i \in last.counted) <=> SaidAnd(last.evicted[i].fields, last.fields)

\* C4: under OR a stored record A is counted against the incoming snapshot B
\* iff at least one key of A is present in B with a non-empty, equal value.
C4_OrCounted ==
    (last.n >= 1 /\ config.match_method = "or")
        => \A i \in DOMAIN last.evicted :
              (i \in last.counted) <=> SaidOr(last.evicted[i].fields, last.fields)

\* C5: an empty value is no wildcard: a request whose snapshot holds only empty
\* values is counted against no record that carries a different snapshot.
C5_EmptyNoWildcard ==
    (/\ last.n >= 1
     /\ DOMAIN last.fields # {}
     /\ \A k \in DOMAIN last.fields : Falsy(last.fields[k]))
        => \A i \in last.counted : last.evicted[i].fields = last.fields

\* C6: the decision is deny iff count > limit and admit otherwise, where count
\* is the number of matching records of the post-eviction window, the
\* request's own record not among them.
C6_DenyIffCountAboveLimit ==
    Decided
        => /\ last.count = Cardinality(Accepted)
           /\ (last.outcome = "deny") <=> (Cardinality(Accepted) > config.limit)
           /\ (last.outcome = "admit") <=> (Cardinality(Accepted) <= config.limit)

\* C6 witness: a request admitted with count = limit >= 1, its own record
\* already in the window and not part of the count.
C6_Witness ==
    /\ last.outcome = "admit"
    /\ config.limit = 1
    /\ last.count = 1
    /\ Len(rate_limit_datas) = Len(last.evicted) + 1
    /\ rate_limit_datas[Len(rate_limit_datas)].fields = last.fields

C8_RetriesStayDenied ==
    (/\ last.n >= 1
     /\ DOMAIN last.fields # {}
     /\ Cardinality({ i \in DOMAIN last.evicted :
                        last.evicted[i].fields = last.fields }) > config.limit)
        => last.outcome = "deny"

\* C9: a record older than window_time at the time of a request contributes
\* nothing: the run ends as it would on the window without the expired records.
C9_ExpiryResets ==
    last.n >= 1
        => LET fresh == Fresh(last.before, last.now)
           IN  /\ last.outcome = Outcome(fresh, last.fields, config)
               /\ last.count = LastRequests(fresh, last.fields, config).count

\* C9 witness: limit 1, window 1; an admitted request, and more than one window
\* later the same snapshot again, admitted with count 0.
C9_Witness ==
    /\ config.limit = 1
    /\ config.window_time = 1
    /\ last.n = 2
    /\ Len(last.before) = 1
    /\ last.before[1].fields = last.fields
    /\ DOMAIN last.fields # {}
    /\ last.now - last.before[1].timestamp > config.window_time
    /\ last.count = 0
    /\ last.outcome = "admit"

\* C10: right after the eviction pass of a run at time `now` no record of the
\* window is older than now - window_time, and the count is taken on that
\* window, so no expired record is counted.
C10_NoExpiredCounted ==
    last.n >= 1
        => /\ \A i \in DOMAIN last.evicted :
                last.now - last.evicted[i].timestamp <= config.window_time
           /\ last.counted \subseteq DOMAIN last.evicted
           /\ \A i \in last.counted :
                last.now - last.evicted[i].timestamp <= config.window_time

\* C10 witness: a run whose eviction pass removed a record and kept another,
\* which it then counted.
C10_Witness ==
    /\ last.n >= 1
    /\ Len(last.evicted) >= 1
    /\ Len(last.evicted) < Len(last.before)
    /\ last.counted # {}

\* C11: the eviction pass of a run at time `now` removes exactly the records
\* whose timestamp is before now - window_time: what is left is the window it
\* started from without them, in the same order, so a record exactly
\* window_time old survives; with window_time = 0 the survivors are exactly the
\* records stamped `now`.
C11_EvictsExactlyExpired ==
    last.n >= 1 =>
        /\ last.evicted =
               SelectSeq(last.before,
                         LAMBDA r : ~(r.timestamp < last.now - config.window_time))
        /\ config.window_time = 0 =>
               last.evicted = SelectSeq(last.before, LAMBDA r : r.timestamp = last.now)

\* A run whose eviction removed an older record and kept one exactly
\* window_time (> 0) old.
C11_Witness ==
    /\ last.n >= 1
    /\ config.window_time > 0
    /\ Len(last.evicted) < Len(last.before)
    /\ \E i \in DOMAIN last.evicted :
           last.now - last.evicted[i].timestamp = config.window_time

\* The configurations that list the match fields of `cfg` in another order.
Reordered(cfg) ==
    { other \in Configs :
        /\ other.match_fields # cfg.match_fields
        /\ { other.match_fields[i] : i \in DOMAIN other.match_fields }
              = { cfg.match_fields[i] : i \in DOMAIN cfg.match_fields }
        /\ other = [cfg EXCEPT !.match_fields = other.match_fields] }

\* C17: the order in which the match fields are listed does not affect the
\* decision: on the window a run counted in, the same request has the same
\* outcome (admit, deny or error) and the same count under every configuration
\* that lists the same fields in another order.  (Two such configurations fed
\* the same requests hold the same window up to their first difference.)
C17_FieldOrderIrrelevant ==
    last.n >= 1 =>
        \A other \in Reordered(config) :
            /\ Outcome(last.evicted, last.fields, other) = last.outcome
            /\ LastRequests(last.evicted, last.fields, other).count = last.count

\* C18: for every pair of a stored and an incoming snapshot, taken from the
\* records a run tested, a match of the AND matcher is a match of the OR
\* matcher too.
C18_AndImpliesOr ==
    last.n >= 1 =>
        \A i \in DOMAIN last.evicted :
            And(last.fields, last.evicted[i].fields, config.match_fields) = "True"
                => Or(last.fields, last.evicted[i].fields, config.match_fields) = "True"

\* C19: with match method AND or OR every run of the decision step ends in
\* admit or deny, never in another error.
C19_AlwaysDecides ==
    (last.n >= 1 /\ config.match_method \in MatchMethod) => Decided

\* C20: a run that ends in an error leaves the window exactly as it was before
\* the run.
C20_AllOrNothing ==
    (last.n >= 1 /\ ~Decided) => rate_limit_datas = last.before

\* C14: with a match method outside {AND, OR} every run of the decision step
\* raises: the downstream handler is not called, the limiter hands up neither
\* the downstream response nor the HTTPException of a deny, and the client does
\* not receive the configured deny response.
C14_UnknownMethodRaises ==
    (last.n >= 1 /\ config.match_method \notin MatchMethod) =>
        /\ last.outcome = "AssertionError"
        /\ last.called = 0
        /\ RateLimitMiddleware(last.outcome, config).result.raised
              \notin {"", "HTTPException"}
        /\ last.response # BaseResponse(config.status_code, config.message)

\* The last of several requests under an unknown match method raised as well.
C14_Witness ==
    /\ config.match_method \notin MatchMethod
    /\ last.n = MaxRequests
    /\ last.outcome = "AssertionError"
    /\ last.called = 0

\* C16: a denied request is short-circuited: call_next is not invoked and the
\* client receives exactly the configured status code and message; an admitted
\* request invokes call_next exactly once.
C16_DenyShortCircuits ==
    /\ last.outcome = "deny" =>
           /\ last.called = 0
           /\ last.response = Returned(config.status_code, config.message)
    /\ last.outcome = "admit" => last.called = 1

\* C15: validating a configuration with limiting enabled fails when any of
\* window_time, limit, match_fields, match_method is absent, and succeeds when
\* all four are given (limit 0 and a zero window included), keeping the given
\* values; with limiting disabled it succeeds and what was absent stays absent.
C15_ConfigValidation ==
    loaded # NotLoaded =>
        LET raw == loaded.raw
            absent == { attr \in ATTR_NAMES : raw[attr] = Absent }
        IN  /\ (raw.enable /\ absent # {}) => loaded.state = "ValidationError"
            /\ (raw.enable /\ absent = {}) =>
                   /\ loaded.state = "ok"
                   /\ loaded.value.window_time = raw.window_time
                   /\ loaded.value.limit = raw.limit
                   /\ loaded.value.match_method = raw.match_method
                   /\ \A given \in raw.match_fields :
                          loaded.value.match_fields = Some(FieldsValue(TRUE, given.items))
            /\ ~raw.enable =>
                   /\ loaded.state = "ok"
                   /\ \A attr \in ATTR_NAMES : loaded.value[attr] = raw[attr]

\* An enabled configuration with limit 0, a zero window and the other two
\* attributes given was accepted.
C15_Witness ==
    /\ loaded # NotLoaded
    /\ loaded.raw.enable
    /\ loaded.raw.limit = Some(0)
    /\ loaded.raw.window_time = Some(0)
    /\ loaded.state = "ok"
    /\ loaded.value.limit = Some(0)

\* C12: in every reachable state, whatever the interleaving of the requests in
\* flight, the timestamps of the records in the window are non-decreasing in
\* list order.
C12_TimestampsNonDecreasing ==
    \A i \in 1..(Len(rate_limit_datas) - 1) :
        rate_limit_datas[i].timestamp <= rate_limit_datas[i + 1].timestamp

\* Two requests were recorded in the opposite order of their arrival, at
\* different times, and both records are in the window.
C12_Witness ==
    \E t, u \in Tasks :
        /\ tasks[t].pc \in {"downstream", "done"} /\ tasks[t].outcome \in {"admit", "deny"}
        /\ tasks[u].pc \in {"downstream", "done"} /\ tasks[u].outcome \in {"admit", "deny"}
        /\ tasks[t].arrived < tasks[u].arrived
        /\ tasks[u].stamp < tasks[t].stamp
        /\ rate_limit_datas = << RequestState(tasks[u].fields, tasks[u].stamp),
                                 RequestState(tasks[t].fields, tasks[t].stamp) >>

\* C13: while a request is between its eviction pass and its append, no other
\* request in flight runs its own eviction or its count and append, and the
\* window changes only by that request's own step.
C13_AtomicDecision ==
    [][\A t \in Tasks :
          tasks[t].pc = "evicted" =>
              /\ \A u \in Tasks \ {t} :
                     tasks[u].pc \in {"arrived", "evicted"} => tasks'[u].pc = tasks[u].pc
              /\ rate_limit_datas' # rate_limit_datas => tasks'[t].pc # "evicted"]_vars

\* A request is between its eviction and its append while another request,
\* which arrived before it, is in flight and waiting to be decided.
C13_Witness ==
    \E t, u \in Tasks :
        /\ tasks[t].pc = "evicted"
        /\ tasks[u].pc = "arrived"
        /\ tasks[u].arrived < tasks[t].arrived

\* C25: under AND a request with an empty snapshot matches every record: its
\* run does not raise, its count is the size of the window left by eviction,
\* and it is denied whenever that window holds more than `limit` records.
C25_EmptySnapshotMatchesAll ==
    (last.n >= 1 /\ config.match_method = "and" /\ DOMAIN last.fields = {}) =>
        /\ Decided
        /\ last.count = Len(last.evicted)
        /\ last.counted = DOMAIN last.evicted
        /\ Len(last.evicted) > config.limit => last.outcome = "deny"

\* A request without the configured attribute was denied on a window that
\* holds only records of other clients, none of them with an empty snapshot.
C25_Witness ==
    /\ last.n >= 1
    /\ config.match_method = "and"
    /\ DOMAIN last.fields = {}
    /\ last.outcome = "deny"
    /\ Len(last.evicted) > config.limit
    /\ \A i \in DOMAIN last.evicted : DOMAIN last.evicted[i].fields # {}

\* The timestamps of a list are non-decreasing in list order.
Ordered(datas) ==
    \A i \in 1..(Len(datas) - 1) : datas[i].timestamp <= datas[i + 1].timestamp

\* C23: on every list whose timestamps are non-decreasing, for every `now` and
\* window_time, the backward scan of _remove_olds leaves the same list as
\* front eviction.
C23_SameAsFrontEviction ==
    (last.n = 1 /\ Ordered(last.before)) =>
        last.evicted = FrontEviction(last.before, last.now, config.window_time)

\* An ordered list with expired and live records went through the pass: some
\* records were removed and some were kept.
C23_Witness ==
    /\ last.n = 1
    /\ Ordered(last.before)
    /\ last.evicted # <<>>
    /\ Len(last.evicted) < Len(last.before)
    /\ last.evicted = FrontEviction(last.before, last.now, config.window_time)

\* C24: on every list, ordered or not, after the backward scan at `now` every
\* record that is left satisfies now - timestamp <= window_time.
C24_NoExpiredLeft ==
    last.n = 1 =>
        \A i \in DOMAIN last.evicted :
            last.now - last.evicted[i].timestamp <= config.window_time

\* A list out of timestamp order went through the pass and lost a record that
\* was still valid.
C24_Witness ==
    /\ last.n = 1
    /\ ~Ordered(last.before)
    /\ last.evicted # <<>>
    /\ \E i \in DOMAIN last.before :
           /\ last.now - last.before[i].timestamp <= config.window_time
           /\ i <= Len(last.before) - Len(last.evicted)

\* The requests in flight or finished, and those whose decision is made.
InFlight == { t \in Tasks : tasks[t].pc # "idle" }
Decisions == { t \in Tasks : tasks[t].outcome # "none" }

C22_RecordsStay ==
    /\ rate_limit_datas = <<>>
    /\ [][LET old == rate_limit_datas
              new == rate_limit_datas'
              evicting == \E t \in Tasks :
                              tasks[t].pc = "arrived" /\ tasks'[t].pc = "evicted"
          IN  /\ \A t \in Tasks :
                     (tasks[t].pc = "evicted" /\ tasks'[t].pc # "evicted")
                         => new = Append(old, RequestState(tasks'[t].fields,
                                                           tasks'[t].stamp))
              /\ (\A t \in Tasks : tasks[t].pc = "evicted" => tasks'[t].pc = "evicted")
                     => \E k \in 0..Len(old) :
                            /\ new = SubSeq(old, k + 1, Len(old))
                            /\ k > 0 => evicting
                            /\ \A i \in 1..k :
                                   clock - old[i].timestamp > config.window_time]_vars

\* The downstream handler of one request raised or the request was abandoned,
\* another request was denied, and the records of both are in the window.
C22_Witness ==
    \E t, u \in Tasks :
        /\ tasks[t].ended \in {"raised", "cancelled"}
        /\ tasks[u].outcome = "deny"
        /\ rate_limit_datas = << RequestState(tasks[t].fields, tasks[t].stamp),
                                 RequestState(tasks[u].fields, tasks[u].stamp) >>

\* C26: with handle_all = True the exception handler middleware propagates no
\* exception: whatever call_next produced, it returns the downstream response,
\* or the response of the first registered handler that returns one, or a
\* response with code 500.
C26_HandleAllNeverPropagates ==
    (handled.state = "done" /\ handled.handle_all) =>
        /\ handled.result.raised = ""
        /\ \/ handled.below.raised = "" /\ handled.result = handled.below
           \/ /\ handled.below.raised \in DOMAIN ExceptionHandlers
              /\ \E i \in DOMAIN ExceptionHandlers[handled.below.raised] :
                    /\ handled.result =
                          Handle(ExceptionHandlers[handled.below.raised][i], handled.below)
                    /\ \A j \in 1..(i - 1) :
                          Handle(ExceptionHandlers[handled.below.raised][j],
                                 handled.below).raised # ""
           \/ handled.result = Returned(500, Str(Phrase(500)))

\* With handle_all = True, an exception raised inside a handler (the response
\* could not be built from a list message) ended in the 500 response.
C26_Witness ==
    /\ handled.state = "done"
    /\ handled.handle_all
    /\ handled.below.raised = "HTTPException"
    /\ HandleHttpException(handled.below).raised # ""
    /\ handled.result = Returned(500, Str(Phrase(500)))

\* C27: a ServerException raised below the exception handler middleware, as
\* app.py installs it, is answered with the exception's own response.
C27_ServerExceptionHandled ==
    (handled.state = "done" /\ handled.handle_all
        /\ handled.below.raised = "ServerException") =>
        handled.result = Returned(handled.below.code, handled.below.message)

=============================================================================
